---- MODULE Spec2Model ----
(***************************************************************************)
(* Document synchronisation core of the collaborative editor.              *)
(*                                                                         *)
(* One client (the "session") is modelled in full: the App shell that      *)
(* switches between the dashboard and the editor, the CollaborativeEditor  *)
(* component with its React state, its effects and the closures they       *)
(* capture, the auto-save timers, the in-flight saveDocument / updateTitle *)
(* / createDocument calls, and the change feed of the open document.  A    *)
(* second client of the same user (the "peer") is modelled by what it      *)
(* reads from and writes to the store.  The store is the documents row,    *)
(* the document_activity table and the BEFORE UPDATE trigger.              *)
(*                                                                         *)
(* React: a handler's state updates are batched into one render (React     *)
(* 18); after the render an effect runs again iff one of its dependencies  *)
(* changed, its previous cleanup first.  A closure (timer callback,        *)
(* keydown listener, cleanup) keeps the values of the render that made it. *)
(* An async function is one action per await.                              *)
(*                                                                         *)
(* Time is counted in seconds and advances in steps of TickSeconds; a      *)
(* timer whose delay has elapsed fires before time advances further.       *)
(***************************************************************************)
EXTENDS Integers, Sequences, FiniteSets, Bags, TLC

\* ---------------------------------------------------------------- bounds
MaxVersion == 3          \* updated_at values the store hands out: 1..MaxVersion
MaxFeed == 2             \* change notifications queued for the session
MaxTimers == 3           \* timer ids (an id is reused only when nothing refers to it)
MaxSaves == 2            \* saveDocument calls of the session in flight at once

\* ------------------------------------------------------ program constants
DefaultInterval == 10    \* useState(10)
MinInterval == 5         \* Math.max(5, ...)
FallbackInterval == 10   \* parseInt(...) || 10

\* Time advances in steps of the shortest interval that can be set; every
\* interval of the model is a multiple of it.
TickSeconds == MinInterval

\* ----------------------------------------------------------------- values
\* Titles are sequences of characters, "_" being a blank, so that trim() is
\* computed and not assumed.
Untitled == <<"U">>
TitleInputs == { <<>>, <<"_">>, <<"R">>, <<"_", "R">> }

\* Editor documents are named by their text.  EmptyObject is the JSON value {}
\* that createDocument stores; it is not an editor document.
EmptyObject == "obj{}"
Typed == {"x", "y"}

Max(a, b) == IF a >= b THEN a ELSE b

RECURSIVE TrimLeft(_)
TrimLeft(t) == IF t # <<>> /\ Head(t) = "_" THEN TrimLeft(Tail(t)) ELSE t

RECURSIVE TrimRight(_)
TrimRight(t) ==
    IF t # <<>> /\ t[Len(t)] = "_" THEN TrimRight(SubSeq(t, 1, Len(t) - 1)) ELSE t

Trim(t) == TrimRight(TrimLeft(t))

\* What editor.commands.setContent receives for a stored content value: a
\* TipTap document is passed as it is, any other object as its JSON text.
SetContentArg(c) == IF c = EmptyObject THEN "{}" ELSE c

\* The signed-in user (auth.uid()) and another user.
User == "session"
OtherUser == "other"

\* A documents row; NoRow stands for null / no such row.
NoRow == [exists |-> FALSE, title |-> <<>>, content |-> "", is_public |-> FALSE,
          updated_at |-> 0, owner_id |-> "none"]

\* The component's `document` state: of the row it holds, what the component
\* reads (null or not, is_public) and the row's updated_at.
Local(row) == [exists |-> row.exists, is_public |-> row.is_public,
               updated_at |-> row.updated_at]

\* The values of one render that a saveDocument closure reads.
Closure(s, t, d) == [saving |-> s, title |-> t, document |-> d]

TimerIds == 1..MaxTimers

\* lastSaved: null, or the Date of a save.
NoDate == "null"
SaveDate == "now"

VARIABLES
    \* store
    db,                 \* the documents row
    activity,           \* document_activity, oldest entry first
    feed,               \* change notifications on their way to the session
    \* App
    view,               \* "dashboard" | "editor"  (selectedDocumentId)
    create,             \* createDocument: "idle" | "insert" | "activity"
    \* CollaborativeEditor state
    document, title, isEditingTitle, tempTitle, saving, lastSaved, loading,
    hasUnsavedChanges, autoSaveEnabled, autoSaveInterval, autoSaveTimer,
    editorContent,      \* the TipTap editor's document
    \* closures
    cleanupTimer,       \* autoSaveTimer as captured by the auto-save effect's cleanup
    keyClosure,         \* the registered keydown handler's render
    \* asynchronous work
    fetch,              \* fetchDocument: "idle" | "sent"
    timers,             \* pending setTimeout callbacks
    saves,              \* saveDocument calls in flight
    rename,             \* updateTitle call in flight
    call,               \* saveSettings, togglePublic or handleDelete call in flight
    channels,           \* realtime channels of the document the client holds
    dashboard,          \* DocumentDashboard: its subscriptions, fetchDocuments calls, sort and filter
    toast               \* the last toast shown

storeVars == <<db, activity, feed>>
stateVars == <<document, title, isEditingTitle, tempTitle, saving, lastSaved, loading,
               hasUnsavedChanges, autoSaveEnabled, autoSaveInterval, autoSaveTimer,
               editorContent>>
vars == <<db, activity, feed, view, create, document, title, isEditingTitle, tempTitle,
          saving, lastSaved, loading, hasUnsavedChanges, autoSaveEnabled,
          autoSaveInterval, autoSaveTimer, editorContent, cleanupTimer, keyClosure,
          fetch, timers, saves, rename, call, channels, dashboard, toast>>

NoRename == [phase |-> "none", newTitle |-> <<>>, oldTitle |-> <<>>, live |-> FALSE]
NoCall == [op |-> "none", title |-> <<>>, document |-> Local(NoRow), enabled |-> FALSE,
           interval |-> 0, live |-> FALSE]

\* supabase.removeChannel(channel): the channel leaves the client's channels;
\* when it is not among them nothing is removed.
removeChannel(n) == IF n > 0 THEN n - 1 ELSE 0

Mounted == view = "editor"

\* ------------------------------------------------------------ dashboard
\* Subscriptions and fetchDocuments calls of the dashboard are counted up to
\* these numbers: a count at its maximum stands for that many or more.
MaxSubscriptions == 2
MaxListFetches == 2

UpTo(max, n) == IF n < max THEN n + 1 ELSE max

SortKeys == {"updated", "created", "title"}
Filters == {"all", "owned", "shared", "public"}

\* DocumentDashboard as mounted: useState('updated'), useState('all').
\* channels: channel('documents-changes')...subscribe() calls whose channel was
\* not removed; fetching: fetchDocuments calls that have not resolved.
DashboardMounted(ch, f) ==
    [channels |-> ch, fetching |-> f, sortBy |-> "updated", filterBy |-> "all"]

\* The dashboard's effect, dependencies [user, sortBy, filterBy]:
\* fetchDocuments(); setupRealtimeSubscription().  The function that
\* setupRealtimeSubscription returns is dropped: the effect returns no cleanup.
DashboardEffect(d) ==
    [d EXCEPT !.channels = UpTo(MaxSubscriptions, @),
              !.fetching = UpTo(MaxListFetches, @)]

\* App renders the editor instead of the dashboard: the dashboard's state is
\* gone; it has no effect cleanup, and what it started keeps running.
DashboardClosed == DashboardMounted(dashboard.channels, dashboard.fetching)

\* App renders the dashboard again: initial state, first run of its effect.
DashboardOpened == DashboardEffect(DashboardMounted(dashboard.channels, dashboard.fetching))

\* useState initial values of a freshly mounted CollaborativeEditor, and the
\* first run of its effects.
FreshState ==
    /\ document' = Local(NoRow)
    /\ title' = <<>>
    /\ isEditingTitle' = FALSE
    /\ tempTitle' = <<>>
    /\ saving' = FALSE
    /\ lastSaved' = NoDate
    /\ loading' = TRUE
    /\ hasUnsavedChanges' = FALSE
    /\ autoSaveEnabled' = TRUE
    /\ autoSaveInterval' = DefaultInterval
    /\ autoSaveTimer' = 0
    /\ editorContent' = ""

Init ==
    /\ db = NoRow
    /\ activity = <<>>
    /\ feed = <<>>
    /\ view = "dashboard"
    /\ create = "idle"
    /\ document = Local(NoRow)
    /\ title = <<>>
    /\ isEditingTitle = FALSE
    /\ tempTitle = <<>>
    /\ saving = FALSE
    /\ lastSaved = NoDate
    /\ loading = TRUE
    /\ hasUnsavedChanges = FALSE
    /\ autoSaveEnabled = TRUE
    /\ autoSaveInterval = DefaultInterval
    /\ autoSaveTimer = 0
    /\ editorContent = ""
    /\ cleanupTimer = 0
    /\ keyClosure = [h |-> FALSE, cl |-> Closure(FALSE, <<>>, FALSE)]
    /\ fetch = "idle"
    /\ timers = {}
    /\ saves = EmptyBag
    /\ rename = NoRename
    /\ call = NoCall
    /\ channels = 0
    /\ dashboard = DashboardEffect(DashboardMounted(0, 0))
    /\ toast = "none"

\* ------------------------------------------------------------ the store
Entry(action, by, old, new) == [action |-> action, by |-> by, old |-> old, new |-> new]

\* document_activity insert: document_id references an existing documents row.
LogAppend(log, e) == IF db.exists THEN Append(log, e) ELSE log

\* updated_at: now.toISOString() of a save, a reading of the client's clock,
\* which may be behind or ahead of the store's.
ClientClocks == {0, MaxVersion + 1}

\* Variant: the row is stored as it was sent.
TouchAsSent(row) == row

\* update_document_updated_at: BEFORE UPDATE, NEW.updated_at = now().
Touch(row) == [row EXCEPT !.updated_at = db.updated_at + 1]

\* An UPDATE of the documents row WHERE id = documentId, changing the columns
\* `row` differs in: it touches no row when the document does not exist.  The
\* new row is announced to the session's channel while the session is subscribed.
\* (The updated_at a client sends is overwritten by the trigger.)
ServerUpdate(row) ==
    /\ db.updated_at < MaxVersion
    /\ IF db.exists /\ db.owner_id = User
       THEN /\ db' = Touch(row)
            /\ IF channels > 0
               THEN Len(feed) < MaxFeed /\ feed' = Append(feed, Touch(row))
               ELSE feed' = feed
       ELSE UNCHANGED <<db, feed>>

\* ------------------------------------------------------ render and effects
\* A reference to a timer (autoSaveTimer, or the value a cleanup captured) is
\* used for clearTimeout only, which does nothing for a timer that has fired
\* or was cleared: such a reference is written 0 like null.
Ref(id, ts) == IF \E x \in ts : x.id = id THEN id ELSE 0

\* setTimeout(() => saveDocument(), autoSaveInterval * 1000) in a render with
\* the values cl.  ed is "live" while the component is mounted.  quiet is
\* history: the delay that was left when the user last typed (the whole delay
\* if not since the timer was set), which is how long the user will not have
\* typed when the timer fires.
Timer(id, i, cl) ==
    [id |-> id, remaining |-> i, interval |-> i, quiet |-> i, ed |-> "live", cl |-> cl]

\* Fault variant of AutoSaveEffect: the effect does not clear the timer it set
\* before, it only sets the new one.
AutoSaveEffectKeepsTimer(h, s, e, i, t, d, ts) ==
    LET afterCleanup == {x \in ts : x.id # cleanupTimer}
        free == TimerIds \ {x.id : x \in afterCleanup}
        id == CHOOSE n \in free : \A m \in free : n <= m
    IN  IF e /\ h /\ ~s
        THEN /\ free # {}
             /\ timers' = afterCleanup \cup {Timer(id, i, Closure(s, t, d.exists))}
             /\ autoSaveTimer' = id
             /\ cleanupTimer' = Ref(autoSaveTimer, afterCleanup)
        ELSE /\ timers' = afterCleanup
             /\ autoSaveTimer' = Ref(autoSaveTimer, afterCleanup)
             /\ cleanupTimer' = Ref(autoSaveTimer, afterCleanup)

\* The auto-save effect of a render with the given dependency values, on the
\* pending timers ts.  The cleanup that runs first is the previous run's and
\* clears the autoSaveTimer value that run captured; the cleanup registered now
\* captures this render's autoSaveTimer, which is not the timer armed here.
AutoSaveEffect(h, s, e, i, t, d, ts) ==
    LET afterCleanup == {x \in ts : x.id # cleanupTimer}
        cleared == {x \in afterCleanup : x.id # autoSaveTimer}
        free == TimerIds \ {x.id : x \in cleared}
        id == CHOOSE n \in free : \A m \in free : n <= m
    IN  IF e /\ h /\ ~s
        THEN /\ free # {}
             /\ timers' = cleared \cup {Timer(id, i, Closure(s, t, d.exists))}
             /\ autoSaveTimer' = id
             /\ cleanupTimer' = 0
        ELSE /\ timers' = afterCleanup
             /\ autoSaveTimer' = Ref(autoSaveTimer, afterCleanup)
             /\ cleanupTimer' = Ref(autoSaveTimer, afterCleanup)

\* The keydown effect, dependencies [hasUnsavedChanges]: the listener is
\* replaced by this render's handler.
KeydownEffect(h, s, t, d) ==
    keyClosure' = [h |-> h, cl |-> Closure(s, t, d.exists)]

\* One render of the mounted component with the new values of the state the
\* effects and closures read, followed by the effects whose dependencies changed.
Render(h, s, e, i, t, d, ts) ==
    /\ hasUnsavedChanges' = h
    /\ saving' = s
    /\ autoSaveEnabled' = e
    /\ autoSaveInterval' = i
    /\ title' = t
    /\ document' = d
    /\ IF <<h, e, i, s>> # <<hasUnsavedChanges, autoSaveEnabled, autoSaveInterval, saving>>
       THEN AutoSaveEffect(h, s, e, i, t, d, ts)
       ELSE /\ timers' = ts
            /\ autoSaveTimer' = Ref(autoSaveTimer, ts)
            /\ cleanupTimer' = Ref(cleanupTimer, ts)
    /\ IF h # hasUnsavedChanges
       THEN KeydownEffect(h, s, t, d)
       ELSE UNCHANGED keyClosure

\* CollaborativeEditor mounts: initial state, then the first run of every
\* effect (keydown listener, auto-save effect, fetchDocument, subscription).
Mount ==
    /\ view' = "editor"
    /\ FreshState
    /\ cleanupTimer' = 0
    /\ keyClosure' = [h |-> FALSE, cl |-> Closure(FALSE, <<>>, FALSE)]
    /\ fetch' = "sent"
    /\ channels' = channels + 1
    /\ dashboard' = DashboardClosed
    /\ feed' = <<>>
    /\ UNCHANGED <<timers, saves, rename, call>>

\* ------------------------------------------------------------ dashboard
createDocument ==
    /\ view = "dashboard" /\ create = "idle" /\ db = NoRow
    /\ create' = "insert"
    /\ UNCHANGED <<storeVars, view, stateVars, cleanupTimer, keyClosure, fetch, timers,
                   saves, rename, call, toast, channels, dashboard>>

\* The insert is done and its row returned; the activity insert is issued.
createInserted ==
    /\ create = "insert"
    /\ create' = "activity"
    /\ db' = [exists |-> TRUE, title |-> Untitled, content |-> EmptyObject,
              is_public |-> FALSE, updated_at |-> 1, owner_id |-> User]
    /\ UNCHANGED <<activity, feed, view, stateVars, cleanupTimer, keyClosure, fetch,
                   timers, saves, rename, call, toast, channels, dashboard>>

createFailed ==
    /\ create = "insert"
    /\ create' = "idle"
    /\ toast' = "Error: create"
    /\ UNCHANGED <<storeVars, view, stateVars, cleanupTimer, keyClosure, fetch, timers,
                   saves, rename, call, channels, dashboard>>

\* The activity insert has resolved, with or without an error (the result is
\* not looked at); toast, onDocumentSelect(data.id), finally setCreating(false).
createLogged(ok) ==
    /\ create = "activity"
    /\ create' = "idle"
    /\ activity' = IF ok THEN LogAppend(activity, Entry("created", "session", <<>>, Untitled))
                   ELSE activity
    /\ toast' = "Document created"
    /\ IF view = "dashboard"
       THEN Mount
       ELSE UNCHANGED <<view, stateVars, cleanupTimer, keyClosure, fetch, feed, timers,
                        saves, rename, call, channels, dashboard>>
    /\ UNCHANGED db

\* A document card is clicked.
onDocumentSelect ==
    /\ view = "dashboard" /\ db.exists
    /\ Mount
    /\ UNCHANGED <<db, activity, create, toast>>

\* ------------------------------------------------------- loading, editing
\* fetchDocument's select has resolved: the row is put into the state and the
\* editor, or the error is shown; finally setLoading(false).
fetchDocument ==
    /\ Mounted /\ fetch = "sent"
    /\ fetch' = "idle"
    /\ loading' = FALSE
    /\ IF db.exists
       THEN /\ editorContent' = SetContentArg(db.content)
            /\ Render(FALSE, saving, autoSaveEnabled, autoSaveInterval, db.title, Local(db),
                      timers)
            /\ toast' = toast
       ELSE /\ toast' = "Error: load"
            /\ UNCHANGED editorContent
            /\ Render(hasUnsavedChanges, saving, autoSaveEnabled, autoSaveInterval, title,
                      document, timers)
    /\ UNCHANGED <<storeVars, view, create, isEditingTitle, tempTitle, lastSaved, saves,
                   rename, call, channels, dashboard>>

\* payload.new.updated_at as the change feed delivers it: set by the trigger
\* from the server's clock.
PayloadStamp(row) == <<"server", row.updated_at>>

\* lastSaved?.toISOString(): undefined for null, else the client's clock reading.
ToISOString(ls) == IF ls = NoDate THEN <<"undefined", 0>> ELSE <<"client", 0>>

\* The lastSaved that handleDocumentChange reads: the subscription effect has
\* dependencies [documentId], so the subscribed callback is the first render's.
SubscribedLastSaved == NoDate

\* Variant: setContent reports the replacement as an edit (onUpdate runs).
handleDocumentChangeAsEdit ==
    /\ Mounted /\ feed # <<>>
    /\ feed' = Tail(feed)
    /\ LET row == Head(feed)
       IN  IF row.exists
           THEN /\ Render(TRUE, saving, autoSaveEnabled, autoSaveInterval,
                          row.title, Local(row), timers)
                /\ IF PayloadStamp(row) # ToISOString(SubscribedLastSaved)
                   THEN editorContent' = SetContentArg(row.content)
                   ELSE UNCHANGED editorContent
           ELSE /\ Render(hasUnsavedChanges, saving, autoSaveEnabled, autoSaveInterval,
                          title, document, timers)
                /\ UNCHANGED editorContent
    /\ UNCHANGED <<db, activity, view, create, isEditingTitle, tempTitle, lastSaved,
                   loading, fetch, saves, rename, call, toast, channels, dashboard>>

\* A postgres_changes event of the documents row reaches the subscribed callback.
handleDocumentChange ==
    /\ Mounted /\ feed # <<>>
    /\ feed' = Tail(feed)
    /\ LET row == Head(feed)
       IN  IF row.exists
           THEN /\ Render(hasUnsavedChanges, saving, autoSaveEnabled, autoSaveInterval,
                          row.title, Local(row), timers)
                /\ IF PayloadStamp(row) # ToISOString(SubscribedLastSaved)
                   THEN editorContent' = SetContentArg(row.content)
                   ELSE UNCHANGED editorContent
           ELSE /\ Render(hasUnsavedChanges, saving, autoSaveEnabled, autoSaveInterval,
                          title, document, timers)
                /\ UNCHANGED editorContent
    /\ UNCHANGED <<db, activity, view, create, isEditingTitle, tempTitle, lastSaved,
                   loading, fetch, saves, rename, call, toast, channels, dashboard>>

\* The user types: the editor's document changes and onUpdate runs.
onUpdate(c) ==
    /\ Mounted /\ ~loading /\ document.exists
    /\ c # editorContent
    /\ editorContent' = c
    /\ Render(TRUE, saving, autoSaveEnabled, autoSaveInterval, title, document,
              {[t EXCEPT !.quiet = t.remaining] : t \in timers})
    /\ UNCHANGED <<storeVars, view, create, isEditingTitle, tempTitle, lastSaved, loading,
                   fetch, saves, rename, call, toast, channels, dashboard>>

\* Time passes; no pending timer is overdue.
Tick ==
    /\ \A t \in timers : t.remaining > 0
    /\ timers # {}
    /\ timers' = {[t EXCEPT !.remaining = Max(0, t.remaining - TickSeconds)] : t \in timers}
    /\ UNCHANGED <<storeVars, view, create, stateVars, cleanupTimer, keyClosure, fetch,
                   saves, rename, call, toast, channels, dashboard>>

\* ------------------------------------------------------------ saveDocument
\* Fault variant of SaveCall: the content sent is the document as it was
\* loaded, not what the editor holds when the call is made.
SaveCallAsLoaded(cl, content, live) ==
    [title |-> cl.title, content |-> SetContentArg(EmptyObject), phase |-> "update",
     live |-> live]

\* The record of one saveDocument call past its guard: the update it sends
\* (title of the calling render, editor.getJSON(), now) and where it stands.
SaveCall(cl, content, live) ==
    [title |-> cl.title, content |-> content, phase |-> "update", live |-> live]

\* saveDocument of the render cl, called in the mounted component:
\* if (!editor || !document || saving || !user) return; setSaving(true); ...
saveDocument(cl, ts) ==
    IF ~cl.document \/ cl.saving
    THEN /\ Render(hasUnsavedChanges, saving, autoSaveEnabled, autoSaveInterval, title,
                   document, ts)
         /\ saves' = saves
    ELSE /\ BagCardinality(saves) < MaxSaves
         /\ saves' = saves (+) SetToBag({SaveCall(cl, editorContent, TRUE)})
         /\ Render(hasUnsavedChanges, TRUE, autoSaveEnabled, autoSaveInterval, title,
                   document, ts)

\* The Save button: disabled={saving || !hasUnsavedChanges}, onClick of the
\* current render.
saveButton ==
    /\ Mounted /\ ~loading /\ document.exists
    /\ ~(saving \/ ~hasUnsavedChanges)
    /\ saveDocument(Closure(saving, title, document.exists), timers)
    /\ UNCHANGED <<storeVars, view, create, isEditingTitle, tempTitle, lastSaved, loading,
                   editorContent, fetch, rename, call, toast, channels, dashboard>>

\* Ctrl+S / Cmd+S: the registered listener tests its own render's
\* hasUnsavedChanges and calls its own render's saveDocument.
handleKeyDown ==
    /\ Mounted
    /\ keyClosure.h
    /\ saveDocument(keyClosure.cl, timers)
    /\ UNCHANGED <<storeVars, view, create, isEditingTitle, tempTitle, lastSaved, loading,
                   editorContent, fetch, rename, call, toast, channels, dashboard>>

\* An auto-save timer of the mounted component fires: saveDocument of the
\* render that armed it.
autoSaveFires(t) ==
    /\ t \in timers /\ t.remaining = 0 /\ t.ed = "live"
    /\ saveDocument(t.cl, timers \ {t})
    /\ UNCHANGED <<storeVars, view, create, isEditingTitle, tempTitle, lastSaved, loading,
                   editorContent, fetch, rename, call, toast, channels, dashboard>>

\* A timer that outlived its component fires: the same saveDocument, whose
\* state setters no longer do anything and whose editor is the closed one.
orphanFires(t) ==
    /\ t \in timers /\ t.remaining = 0 /\ t.ed # "live"
    /\ timers' = timers \ {t}
    /\ IF ~t.cl.document \/ t.cl.saving
       THEN saves' = saves
       ELSE /\ BagCardinality(saves) < MaxSaves
            /\ saves' = saves (+) SetToBag({SaveCall(t.cl, t.ed, FALSE)})
    /\ UNCHANGED <<storeVars, view, create, stateVars, cleanupTimer, keyClosure, fetch,
                   rename, call, toast, channels, dashboard>>

\* Calls that send the same update and stand at the same place are not told
\* apart: saves is a bag.
Resolve(s) == saves (-) SetToBag({s})

Advance(s, phase) == Resolve(s) (+) SetToBag({[s EXCEPT !.phase = phase]})

\* The store executes the update of a save.
saveApplied(s) ==
    /\ BagIn(s, saves) /\ s.phase = "update"
    /\ \E now \in ClientClocks :
          ServerUpdate([db EXCEPT !.title = s.title, !.content = s.content,
                                  !.updated_at = now])
    /\ saves' = Advance(s, "activity")
    /\ UNCHANGED <<activity, view, create, stateVars, cleanupTimer, keyClosure, fetch,
                   timers, rename, call, toast, channels, dashboard>>

\* Fault variant of saveFailed: the failed save is taken for a saved one and
\* setHasUnsavedChanges(false) runs.
saveFailedDropsChange(s) ==
    /\ BagIn(s, saves) /\ s.phase = "update"
    /\ saves' = Resolve(s)
    /\ toast' = "Error: save"
    /\ IF s.live
       THEN Render(FALSE, FALSE, autoSaveEnabled, autoSaveInterval, title, document, timers)
       ELSE UNCHANGED <<hasUnsavedChanges, saving, autoSaveEnabled, autoSaveInterval,
                        title, document, timers, autoSaveTimer, cleanupTimer, keyClosure>>
    /\ UNCHANGED <<storeVars, view, create, isEditingTitle, tempTitle, lastSaved, loading,
                   editorContent, fetch, rename, call, channels, dashboard>>

\* The update comes back with an error: throw, catch (toast), finally
\* setSaving(false).
saveFailed(s) ==
    /\ BagIn(s, saves) /\ s.phase = "update"
    /\ saves' = Resolve(s)
    /\ toast' = "Error: save"
    /\ IF s.live
       THEN Render(hasUnsavedChanges, FALSE, autoSaveEnabled, autoSaveInterval, title,
                   document, timers)
       ELSE UNCHANGED <<hasUnsavedChanges, saving, autoSaveEnabled, autoSaveInterval,
                        title, document, timers, autoSaveTimer, cleanupTimer, keyClosure>>
    /\ UNCHANGED <<storeVars, view, create, isEditingTitle, tempTitle, lastSaved, loading,
                   editorContent, fetch, rename, call, channels, dashboard>>

\* Fault variant of saveLogged: an error of the activity insert is thrown like
\* an error of the update, so the catch block runs and not the rest of the try.
saveLoggedOrThrown(s, ok) ==
    /\ BagIn(s, saves) /\ s.phase = "activity"
    /\ saves' = Resolve(s)
    /\ activity' = IF ok THEN LogAppend(activity, Entry("edited", "session", <<>>, <<>>))
                   ELSE activity
    /\ toast' = IF ok THEN "Saved" ELSE "Error: save"
    /\ IF s.live
       THEN /\ lastSaved' = IF ok THEN SaveDate ELSE lastSaved
            /\ Render(IF ok THEN FALSE ELSE hasUnsavedChanges, FALSE, autoSaveEnabled,
                      autoSaveInterval, title, document, timers)
       ELSE UNCHANGED <<lastSaved, hasUnsavedChanges, saving, autoSaveEnabled,
                        autoSaveInterval, title, document, timers, autoSaveTimer,
                        cleanupTimer, keyClosure>>
    /\ UNCHANGED <<db, feed, view, create, isEditingTitle, tempTitle, loading,
                   editorContent, fetch, rename, call, channels, dashboard>>

\* Variant: a save that returns leaves the dirty flag as it is.
saveLoggedStaysDirty(s, ok) ==
    /\ BagIn(s, saves) /\ s.phase = "activity"
    /\ saves' = Resolve(s)
    /\ activity' = IF ok THEN LogAppend(activity, Entry("edited", "session", <<>>, <<>>))
                   ELSE activity
    /\ toast' = "Saved"
    /\ IF s.live
       THEN /\ lastSaved' = SaveDate
            /\ Render(hasUnsavedChanges, FALSE, autoSaveEnabled, autoSaveInterval, title, document,
                      timers)
       ELSE UNCHANGED <<lastSaved, hasUnsavedChanges, saving, autoSaveEnabled,
                        autoSaveInterval, title, document, timers, autoSaveTimer,
                        cleanupTimer, keyClosure>>
    /\ UNCHANGED <<db, feed, view, create, isEditingTitle, tempTitle, loading,
                   editorContent, fetch, rename, call, channels, dashboard>>

\* The update came back without an error and the activity insert has resolved,
\* with or without an error (its result is not looked at): setLastSaved(now),
\* setHasUnsavedChanges(false), toast, finally setSaving(false).
saveLogged(s, ok) ==
    /\ BagIn(s, saves) /\ s.phase = "activity"
    /\ saves' = Resolve(s)
    /\ activity' = IF ok THEN LogAppend(activity, Entry("edited", "session", <<>>, <<>>))
                   ELSE activity
    /\ toast' = "Saved"
    /\ IF s.live
       THEN /\ lastSaved' = SaveDate
            /\ Render(FALSE, FALSE, autoSaveEnabled, autoSaveInterval, title, document,
                      timers)
       ELSE UNCHANGED <<lastSaved, hasUnsavedChanges, saving, autoSaveEnabled,
                        autoSaveInterval, title, document, timers, autoSaveTimer,
                        cleanupTimer, keyClosure>>
    /\ UNCHANGED <<db, feed, view, create, isEditingTitle, tempTitle, loading,
                   editorContent, fetch, rename, call, channels, dashboard>>

\* Variant: the subscription effect's cleanup leaves the channel in place.
UnmountKeepsChannel ==
    /\ view' = "dashboard"
    /\ timers' = {IF t.ed = "live"
                  THEN [t EXCEPT !.ed = editorContent]
                  ELSE t : t \in {x \in timers : x.id # cleanupTimer}}
    /\ saves' = [x \in {[y EXCEPT !.live = FALSE] : y \in BagToSet(saves)} |->
                    CopiesIn(x, saves) + CopiesIn([x EXCEPT !.live = TRUE], saves)]
    /\ rename' = IF rename.phase = "none" THEN rename ELSE [rename EXCEPT !.live = FALSE]
    /\ channels' = channels
    /\ dashboard' = DashboardOpened
    /\ feed' = <<>>
    /\ fetch' = "idle"
    /\ FreshState
    /\ cleanupTimer' = 0
    /\ keyClosure' = [h |-> FALSE, cl |-> Closure(FALSE, <<>>, FALSE)]

\* --------------------------------------------------- dashboard: the list
\* The sort or the filter select changes: setSortBy / setFilterBy, and the
\* effect runs again.
setSortBy(v) ==
    /\ view = "dashboard" /\ v # dashboard.sortBy
    /\ dashboard' = DashboardEffect([dashboard EXCEPT !.sortBy = v])
    /\ UNCHANGED <<storeVars, view, create, stateVars, cleanupTimer, keyClosure, fetch,
                   timers, saves, rename, call, channels, toast>>

setFilterBy(v) ==
    /\ view = "dashboard" /\ v # dashboard.filterBy
    /\ dashboard' = DashboardEffect([dashboard EXCEPT !.filterBy = v])
    /\ UNCHANGED <<storeVars, view, create, stateVars, cleanupTimer, keyClosure, fetch,
                   timers, saves, rename, call, channels, toast>>

\* A postgres_changes event of the documents table (any row the user may see)
\* reaches a subscription of the dashboard: () => { fetchDocuments(); }.
documentsChanged ==
    /\ dashboard.channels > 0
    /\ dashboard.fetching < MaxListFetches
    /\ dashboard' = [dashboard EXCEPT !.fetching = @ + 1]
    /\ UNCHANGED <<storeVars, view, create, stateVars, cleanupTimer, keyClosure, fetch,
                   timers, saves, rename, call, channels, toast>>

\* A fetchDocuments call resolves: setDocuments, finally setLoading(false).
fetchDocuments ==
    /\ dashboard.fetching > 0
    /\ dashboard' = [dashboard EXCEPT !.fetching = @ - 1]
    /\ UNCHANGED <<storeVars, view, create, stateVars, cleanupTimer, keyClosure, fetch,
                   timers, saves, rename, call, channels, toast>>

\* ------------------------------------------------------------------ close
\* The back button: App drops the editor.  Every effect's cleanup runs (the
\* auto-save effect's clears the timer it captured, the channel is removed,
\* the keydown listener is removed) and the component's state is gone.  What
\* is still pending keeps running on the closed component: ed of a timer holds
\* the document its saveDocument will read from the closed editor.
Unmount ==
    /\ view' = "dashboard"
    /\ timers' = {IF t.ed = "live"
                  THEN [t EXCEPT !.ed = editorContent]
                  ELSE t : t \in {x \in timers : x.id # cleanupTimer}}
    /\ saves' = [x \in {[y EXCEPT !.live = FALSE] : y \in BagToSet(saves)} |->
                    CopiesIn(x, saves) + CopiesIn([x EXCEPT !.live = TRUE], saves)]
    /\ rename' = IF rename.phase = "none" THEN rename ELSE [rename EXCEPT !.live = FALSE]
    /\ channels' = removeChannel(channels)
    /\ dashboard' = DashboardOpened
    /\ feed' = <<>>
    /\ fetch' = "idle"
    /\ FreshState
    /\ cleanupTimer' = 0
    /\ keyClosure' = [h |-> FALSE, cl |-> Closure(FALSE, <<>>, FALSE)]

\* The back button: onBack={() => setSelectedDocumentId(null)}.
onBack ==
    /\ Mounted /\ ~loading
    /\ Unmount
    /\ call' = IF call.op = "none" THEN call ELSE [call EXCEPT !.live = FALSE]
    /\ UNCHANGED <<db, activity, create, toast>>

\* --------------------------------------------------------------- settings
\* What the interval input's onChange stores for the typed text:
\* Math.max(5, parseInt(e.target.value) || 10).
IntervalInputs == {[nan |-> TRUE, n |-> 0], [nan |-> FALSE, n |-> 0],
                   [nan |-> FALSE, n |-> 0 - 3], [nan |-> FALSE, n |-> 5]}

\* Variant: the parsed value without the lower bound.
ParsedIntervalUnclamped(raw) ==
    IF raw.nan \/ raw.n = 0 THEN FallbackInterval ELSE raw.n

ParsedInterval(raw) ==
    Max(MinInterval, IF raw.nan \/ raw.n = 0 THEN FallbackInterval ELSE raw.n)

\* Save Settings with the switch at `enabled` and the interval field either
\* left alone or typed into: onSettingsChange -> handleSettingsChange.
handleSettingsChange(enabled, interval) ==
    /\ Mounted /\ ~loading /\ document.exists
    /\ Render(hasUnsavedChanges, saving, enabled, interval, title, document, timers)
    /\ toast' = "Settings saved"
    /\ UNCHANGED <<storeVars, view, create, isEditingTitle, tempTitle, lastSaved, loading,
                   editorContent, fetch, saves, rename, call, channels, dashboard>>

\* ------------------------------------------------------------ title edit
handleTitleEdit ==
    /\ Mounted /\ ~loading /\ document.exists /\ ~isEditingTitle
    /\ tempTitle' = title
    /\ isEditingTitle' = TRUE
    /\ UNCHANGED <<storeVars, view, create, document, title, saving, lastSaved, loading,
                   hasUnsavedChanges, autoSaveEnabled, autoSaveInterval, autoSaveTimer,
                   editorContent, cleanupTimer, keyClosure, fetch, timers, saves, rename, call,
                   toast, channels, dashboard>>

\* Typing in the title input.
setTempTitle(v) ==
    /\ Mounted /\ ~loading /\ document.exists /\ isEditingTitle
    /\ v # tempTitle
    /\ tempTitle' = v
    /\ UNCHANGED <<storeVars, view, create, document, title, isEditingTitle, saving,
                   lastSaved, loading, hasUnsavedChanges, autoSaveEnabled,
                   autoSaveInterval, autoSaveTimer, editorContent, cleanupTimer,
                   keyClosure, fetch, timers, saves, rename, call, toast, channels, dashboard>>

\* updateTitle(newTitle) past its guard: the update it sends and the title of
\* the calling render, which becomes old_title.
updateTitle(newTitle) ==
    [phase |-> "update", newTitle |-> Trim(newTitle), oldTitle |-> title, live |-> TRUE]

\* Enter or the confirm button.
handleTitleSave ==
    /\ Mounted /\ ~loading /\ document.exists /\ isEditingTitle
    /\ rename.phase = "none"
    /\ IF Trim(tempTitle) # <<>> /\ tempTitle # title
       THEN /\ rename' = updateTitle(tempTitle)
            /\ UNCHANGED isEditingTitle
       ELSE /\ isEditingTitle' = FALSE
            /\ UNCHANGED rename
    /\ UNCHANGED <<storeVars, view, create, document, title, tempTitle, saving, lastSaved,
                   loading, hasUnsavedChanges, autoSaveEnabled, autoSaveInterval,
                   autoSaveTimer, editorContent, cleanupTimer, keyClosure, fetch, timers,
                   saves, toast, call, channels, dashboard>>

\* Variant: cancelling shows the scratch title as the title.
handleTitleCancelKeepsScratch ==
    /\ Mounted /\ ~loading /\ document.exists /\ isEditingTitle
    /\ tempTitle' = title
    /\ title' = tempTitle
    /\ isEditingTitle' = FALSE
    /\ UNCHANGED <<storeVars, view, create, document, saving, lastSaved, loading,
                   hasUnsavedChanges, autoSaveEnabled, autoSaveInterval, autoSaveTimer,
                   editorContent, cleanupTimer, keyClosure, fetch, timers, saves, rename, call,
                   toast, channels, dashboard>>

\* Escape or the X button.
handleTitleCancel ==
    /\ Mounted /\ ~loading /\ document.exists /\ isEditingTitle
    /\ tempTitle' = title
    /\ isEditingTitle' = FALSE
    /\ UNCHANGED <<storeVars, view, create, document, title, saving, lastSaved, loading,
                   hasUnsavedChanges, autoSaveEnabled, autoSaveInterval, autoSaveTimer,
                   editorContent, cleanupTimer, keyClosure, fetch, timers, saves, rename, call,
                   toast, channels, dashboard>>

\* The store executes the update of a rename.
renameApplied ==
    /\ rename.phase = "update"
    /\ ServerUpdate([db EXCEPT !.title = rename.newTitle])
    /\ rename' = [rename EXCEPT !.phase = "activity"]
    /\ UNCHANGED <<activity, view, create, stateVars, cleanupTimer, keyClosure, fetch,
                   timers, saves, toast, call, channels, dashboard>>

\* The update comes back with an error: toast; the input stays open.
renameFailed ==
    /\ rename.phase = "update"
    /\ rename' = NoRename
    /\ toast' = "Error: title"
    /\ UNCHANGED <<storeVars, view, create, stateVars, cleanupTimer, keyClosure, fetch,
                   timers, saves, call, channels, dashboard>>

\* The update came back without an error and the activity insert has resolved,
\* with or without an error: setTitle(trimmedTitle), setIsEditingTitle(false), toast.
renameLogged(ok) ==
    /\ rename.phase = "activity"
    /\ rename' = NoRename
    /\ activity' = IF ok
                   THEN LogAppend(activity, Entry("renamed", "session", rename.oldTitle,
                                                  rename.newTitle))
                   ELSE activity
    /\ toast' = "Title updated"
    /\ IF rename.live
       THEN /\ isEditingTitle' = FALSE
            /\ Render(hasUnsavedChanges, saving, autoSaveEnabled, autoSaveInterval,
                      rename.newTitle, document, timers)
       ELSE UNCHANGED <<isEditingTitle, hasUnsavedChanges, saving, autoSaveEnabled,
                        autoSaveInterval, title, document, timers, autoSaveTimer,
                        cleanupTimer, keyClosure>>
    /\ UNCHANGED <<db, feed, view, create, tempTitle, lastSaved, loading, editorContent,
                   fetch, saves, call, channels, dashboard>>

\* ------------------------------------------------------------ dialogs
\* The Save Settings button with a title typed into the dialog that differs
\* from the title shown: the update of the title is sent.
saveSettings(localTitle, enabled, interval) ==
    /\ Mounted /\ ~loading /\ document.exists
    /\ call.op = "none"
    /\ localTitle # title
    /\ call' = [NoCall EXCEPT !.op = "settings", !.title = localTitle,
                              !.enabled = enabled, !.interval = interval, !.live = TRUE]
    /\ UNCHANGED <<storeVars, view, create, stateVars, cleanupTimer, keyClosure, fetch,
                   timers, saves, rename, toast, channels, dashboard>>

\* The update came back without an error: onTitleChange(localTitle),
\* onSettingsChange, toast.
settingsApplied ==
    /\ call.op = "settings"
    /\ ServerUpdate([db EXCEPT !.title = call.title])
    /\ call' = NoCall
    /\ toast' = "Settings saved"
    /\ IF call.live
       THEN Render(hasUnsavedChanges, saving, call.enabled, call.interval, call.title,
                   document, timers)
       ELSE UNCHANGED <<hasUnsavedChanges, saving, autoSaveEnabled, autoSaveInterval,
                        title, document, timers, autoSaveTimer, cleanupTimer, keyClosure>>
    /\ UNCHANGED <<activity, view, create, isEditingTitle, tempTitle, lastSaved, loading,
                   editorContent, fetch, saves, rename, channels, dashboard>>

settingsFailed ==
    /\ call.op = "settings"
    /\ call' = NoCall
    /\ toast' = "Error: settings"
    /\ UNCHANGED <<storeVars, view, create, stateVars, cleanupTimer, keyClosure, fetch,
                   timers, saves, rename, channels, dashboard>>

\* The public switch of the share dialog: update({is_public: !isPublic}).
togglePublic ==
    /\ Mounted /\ ~loading /\ document.exists
    /\ call.op = "none"
    /\ call' = [NoCall EXCEPT !.op = "public", !.document = document, !.live = TRUE]
    /\ UNCHANGED <<storeVars, view, create, stateVars, cleanupTimer, keyClosure, fetch,
                   timers, saves, rename, toast, channels, dashboard>>

\* The update came back without an error: onPublicToggle(!isPublic), which is
\* handlePublicToggle of the render the switch was clicked in, then the toast.
handlePublicToggle(isPublic) ==
    Render(hasUnsavedChanges, saving, autoSaveEnabled, autoSaveInterval, title,
           [call.document EXCEPT !.is_public = isPublic], timers)

publicApplied ==
    /\ call.op = "public"
    /\ ServerUpdate([db EXCEPT !.is_public = ~call.document.is_public])
    /\ call' = NoCall
    /\ toast' = "Updated"
    /\ IF call.live
       THEN handlePublicToggle(~call.document.is_public)
       ELSE UNCHANGED <<hasUnsavedChanges, saving, autoSaveEnabled, autoSaveInterval,
                        title, document, timers, autoSaveTimer, cleanupTimer, keyClosure>>
    /\ UNCHANGED <<activity, view, create, isEditingTitle, tempTitle, lastSaved, loading,
                   editorContent, fetch, saves, rename, channels, dashboard>>

publicFailed ==
    /\ call.op = "public"
    /\ call' = NoCall
    /\ toast' = "Error: visibility"
    /\ UNCHANGED <<storeVars, view, create, stateVars, cleanupTimer, keyClosure, fetch,
                   timers, saves, rename, channels, dashboard>>

\* delete().eq('id', documentId) under the delete policy: the row is removed
\* when the caller owns it, with its activity entries (ON DELETE CASCADE);
\* otherwise no row matches, which is not an error.
ServerDelete(by) ==
    IF db.exists /\ db.owner_id = by
    THEN /\ db' = [db EXCEPT !.exists = FALSE]
         /\ activity' = <<>>
    ELSE UNCHANGED <<db, activity>>

\* Delete Forever in the settings dialog.
handleDelete ==
    /\ Mounted /\ ~loading /\ document.exists
    /\ call.op = "none"
    /\ call' = [NoCall EXCEPT !.op = "delete", !.live = TRUE]
    /\ UNCHANGED <<storeVars, view, create, stateVars, cleanupTimer, keyClosure, fetch,
                   timers, saves, rename, toast, channels, dashboard>>

\* The delete came back without an error: toast, onBack().
deleteReturned ==
    /\ call.op = "delete"
    /\ ServerDelete(User)
    /\ call' = NoCall
    /\ toast' = "Document deleted"
    /\ IF call.live
       THEN Unmount
       ELSE UNCHANGED <<feed, view, stateVars, cleanupTimer, keyClosure, fetch, timers,
                        saves, rename, channels, dashboard>>
    /\ UNCHANGED create

deleteFailed ==
    /\ call.op = "delete"
    /\ call' = NoCall
    /\ toast' = "Error: delete"
    /\ UNCHANGED <<storeVars, view, create, stateVars, cleanupTimer, keyClosure, fetch,
                   timers, saves, rename, channels, dashboard>>

\* ------------------------------------------------------------ second client
PeerTyped == {"p"}

\* saveDocument of another client of the same user whose copy of the row is
\* up to date: its title, its editor's document, then the 'edited' entry.
peerSave(c) ==
    /\ db.exists
    /\ \E now \in ClientClocks :
          ServerUpdate([db EXCEPT !.content = c, !.updated_at = now])
    /\ activity' = LogAppend(activity, Entry("edited", "peer", <<>>, <<>>))
    /\ UNCHANGED <<view, create, stateVars, cleanupTimer, keyClosure, fetch, timers, saves,
                   rename, call, toast, channels, dashboard>>

PeerTitles == {<<"P">>}

\* updateTitle of another client of the same user whose copy of the row is up
\* to date: the update of the title, then the 'renamed' entry.
peerRename(t) ==
    /\ db.exists /\ t # db.title
    /\ ServerUpdate([db EXCEPT !.title = t])
    /\ activity' = LogAppend(activity, Entry("renamed", "peer", db.title, t))
    /\ UNCHANGED <<view, create, stateVars, cleanupTimer, keyClosure, fetch, timers, saves,
                   rename, call, toast, channels, dashboard>>

\* deleteDocument of the dashboard of another client of the same user, who
\* owns the document; the session is told that the row is gone.
peerDelete ==
    /\ db.exists /\ db.owner_id = User
    /\ ServerDelete(User)
    /\ IF channels > 0
       THEN Len(feed) < MaxFeed /\ feed' = Append(feed, [db EXCEPT !.exists = FALSE])
       ELSE feed' = feed
    /\ UNCHANGED <<view, create, stateVars, cleanupTimer, keyClosure, fetch, timers, saves,
                   rename, call, toast, channels, dashboard>>

\* Another user has created a document and made it public: the dashboard of
\* the signed-in user lists it.
otherPublishes ==
    /\ view = "dashboard" /\ create = "idle" /\ db = NoRow
    /\ db' = [exists |-> TRUE, title |-> Untitled, content |-> EmptyObject,
              is_public |-> TRUE, updated_at |-> 1, owner_id |-> OtherUser]
    /\ UNCHANGED <<activity, feed, view, create, stateVars, cleanupTimer, keyClosure,
                   fetch, timers, saves, rename, call, toast, channels, dashboard>>

\* ------------------------------------------------------------------ system
\* Creating and loading the document.
Opening ==
    \/ createDocument
    \/ createInserted
    \/ createFailed
    \/ \E ok \in BOOLEAN : createLogged(ok)
    \/ fetchDocument

\* Typing and saving by hand.
Editing ==
    \/ \E c \in Typed : onUpdate(c)
    \/ saveButton
    \/ \E s \in BagToSet(saves) : saveApplied(s)
    \/ \E s \in BagToSet(saves) : saveFailed(s)
    \/ \E s \in BagToSet(saves), ok \in BOOLEAN : saveLogged(s, ok)

\* The passing of time and the auto-save timers of the open editor.
Timing ==
    \/ Tick
    \/ \E t \in timers : autoSaveFires(t)

\* One editing session from the creation of its document to after its close,
\* next to a second client: typing, the three ways to save, the change feed.
Next ==
    \/ Opening
    \/ Editing
    \/ Timing
    \/ handleKeyDown
    \/ handleDocumentChange
    \/ \E c \in PeerTyped : peerSave(c)
    \/ onBack
    \/ \E t \in timers : orphanFires(t)

Spec == Init /\ [][Next]_vars

\* A session in which the auto-save settings are changed.
NextSettings ==
    \/ Opening
    \/ Editing
    \/ Timing
    \/ handleKeyDown
    \/ \E enabled \in BOOLEAN :
          \E interval \in {autoSaveInterval} \cup {ParsedInterval(raw) : raw \in IntervalInputs} :
             handleSettingsChange(enabled, interval)

SpecSettings == Init /\ [][NextSettings]_vars

\* A session in which the document is renamed.
NextTitle ==
    \/ Opening
    \/ Editing
    \/ handleTitleEdit
    \/ \E v \in TitleInputs : setTempTitle(v)
    \/ handleTitleSave
    \/ handleTitleCancel
    \/ renameApplied
    \/ renameFailed
    \/ \E ok \in BOOLEAN : renameLogged(ok)

SpecTitle == Init /\ [][NextTitle]_vars

\* The title editor beside another client that renames the document.
NextRemoteTitle ==
    \/ Opening
    \/ handleTitleEdit
    \/ \E v \in TitleInputs : setTempTitle(v)
    \/ handleTitleSave
    \/ handleTitleCancel
    \/ renameApplied
    \/ renameFailed
    \/ \E ok \in BOOLEAN : renameLogged(ok)
    \/ \E t \in PeerTitles : peerRename(t)
    \/ handleDocumentChange

SpecRemoteTitle == Init /\ [][NextRemoteTitle]_vars

Dialogs ==
    \/ \E localTitle \in TitleInputs : \E enabled \in BOOLEAN :
          \E interval \in {autoSaveInterval} \cup {ParsedInterval(raw) : raw \in IntervalInputs} :
             saveSettings(localTitle, enabled, interval)
    \/ settingsApplied
    \/ settingsFailed
    \/ togglePublic
    \/ publicApplied
    \/ publicFailed
    \/ handleDelete
    \/ deleteReturned
    \/ deleteFailed

\* The owner's session with the share and settings dialogs.
NextDialogs ==
    \/ Opening
    \/ Dialogs
    \/ handleDocumentChange
    \/ onBack

SpecDialogs == Init /\ [][NextDialogs]_vars

\* A session on a public document of another user.
NextGuest ==
    \/ otherPublishes
    \/ onDocumentSelect
    \/ fetchDocument
    \/ Dialogs
    \/ onBack

SpecGuest == Init /\ [][NextGuest]_vars

\* A session whose document is deleted by another client while it is opened.
NextLoadFails ==
    \/ Opening
    \/ \E c \in PeerTyped : peerSave(c)
    \/ \E t \in PeerTitles : peerRename(t)
    \/ peerDelete
    \/ handleDocumentChange
    \/ \E c \in Typed : onUpdate(c)
    \/ Timing
    \/ handleKeyDown
    \/ \E s \in BagToSet(saves) : saveApplied(s)
    \/ \E s \in BagToSet(saves) : \E ok \in BOOLEAN : saveLogged(s, ok)
    \/ onBack

SpecLoadFails == Init /\ [][NextLoadFails]_vars

\* Saves and visibility changes of the session beside the saves and renames
\* of another client.
NextWrites ==
    \/ Opening
    \/ \E c \in Typed : onUpdate(c)
    \/ handleKeyDown
    \/ \E s \in BagToSet(saves) : saveApplied(s)
    \/ \E s \in BagToSet(saves) : \E ok \in BOOLEAN : saveLogged(s, ok)
    \/ togglePublic
    \/ publicApplied
    \/ \E c \in PeerTyped : peerSave(c)
    \/ \E t \in PeerTitles : peerRename(t)
    \/ handleDocumentChange

SpecWrites == Init /\ [][NextWrites]_vars

\* The editor left to auto-save: timers run down and fire, and every save
\* call that was sent resolves.
NextLive ==
    \/ Opening
    \/ \E c \in Typed : onUpdate(c)
    \/ Timing
    \/ \E s \in BagToSet(saves) : saveApplied(s)
    \/ \E s \in BagToSet(saves) : \E ok \in BOOLEAN : saveLogged(s, ok)

SpecLive ==
    /\ Init /\ [][NextLive]_vars
    /\ WF_vars(Timing)
    /\ WF_vars(\E s \in BagToSet(saves) : saveApplied(s))
    /\ WF_vars(\E s \in BagToSet(saves) : \E ok \in BOOLEAN : saveLogged(s, ok))

\* A session that types without saving and changes only the document's title
\* and visibility: every event of the change feed is caused by the session's
\* own rename or toggle.
NextMeta ==
    \/ Opening
    \/ \E c \in Typed : onUpdate(c)
    \/ handleTitleEdit
    \/ \E v \in TitleInputs : setTempTitle(v)
    \/ handleTitleSave
    \/ renameApplied
    \/ \E ok \in BOOLEAN : renameLogged(ok)
    \/ togglePublic
    \/ publicApplied
    \/ handleDocumentChange

SpecMeta == Init /\ [][NextMeta]_vars

\* Saves from the shortcut and the auto-save timer beside the title editor.
\* The store executes a rename only while no save is in flight, so every save
\* that reaches the store was started after the last rename was persisted.
NextRevert ==
    \/ Opening
    \/ \E c \in Typed : onUpdate(c)
    \/ handleKeyDown
    \/ Timing
    \/ \E s \in BagToSet(saves) : saveApplied(s)
    \/ \E s \in BagToSet(saves) : \E ok \in BOOLEAN : saveLogged(s, ok)
    \/ handleTitleEdit
    \/ \E v \in TitleInputs : setTempTitle(v)
    \/ handleTitleSave
    \/ saves = EmptyBag /\ renameApplied
    \/ \E ok \in BOOLEAN : renameLogged(ok)
    \/ handleDocumentChange

SpecRevert == Init /\ [][NextRevert]_vars

\* The dashboard: its list is sorted and filtered, documents change in the
\* store, a document is created or opened and closed again.
NextDashboard ==
    \/ Opening
    \/ onDocumentSelect
    \/ onBack
    \/ \E v \in SortKeys : setSortBy(v)
    \/ \E v \in Filters : setFilterBy(v)
    \/ documentsChanged
    \/ fetchDocuments

SpecDashboard == Init /\ [][NextDashboard]_vars

\* ------------------------------------------------------------- properties
\* The number of saveDocument calls in flight grows in this step.
SaveStarts == BagCardinality(saves') > BagCardinality(saves)

\* C1: a save of the session that reaches the store while the row the session
\* holds is older than the stored row (its updated_at is smaller) is refused:
\* it leaves the stored title and content as they are.
C1_StaleSaveIsRefused ==
    [][\A s \in BagToSet(saves) :
          saveApplied(s) /\ s.live /\ document.updated_at < db.updated_at
             => db'.title = db.title /\ db'.content = db.content]_vars

\* C2: a change notification handled while hasUnsavedChanges is true leaves
\* the editor's content as it is.
C2_DirtyContentSurvivesNotifications ==
    [][handleDocumentChange /\ hasUnsavedChanges => editorContent' = editorContent]_vars

C4_AtMostOneSaveInFlight == Mounted => BagCardinality(saves) <= 1

\* C5: while no editor is open no save starts (the timers of a closed editor
\* were cancelled by the close).
C5_NoSaveAfterClose == [][~Mounted => ~SaveStarts]_vars

\* C6: an auto-save timer starts a save only when the user has not typed for
\* the whole auto-save interval.
C6_AutoSaveWaitsForInactivity ==
    [][\A t \in timers : autoSaveFires(t) /\ SaveStarts => t.quiet >= t.interval]_vars

\* C7: the edits of one auto-save interval get one save from the scheduler: the
\* open editor never has two timers pending, the first edit of a clean session
\* sets one timer for the whole interval, an edit of a dirty session neither
\* sets a timer nor restarts one, and a timer that fires is gone and has
\* started one save.
C7_OneSavePerWindow ==
    [][/\ Mounted' => Cardinality(timers') <= 1
       /\ \A c \in Typed : onUpdate(c) =>
             IF hasUnsavedChanges
             THEN {<<t.id, t.remaining>> : t \in timers'} =
                     {<<t.id, t.remaining>> : t \in timers}
             ELSE (autoSaveEnabled /\ ~saving) =>
                     \E t \in timers' : timers' = {t} /\ t.remaining = autoSaveInterval
       /\ \A t \in timers : autoSaveFires(t) =>
             /\ t \notin timers'
             /\ BagCardinality(saves') = BagCardinality(saves) + 1]_vars

\* C7 witness: the user typed again after the timer was set, the interval is
\* over, and the one timer of the window is the only one pending.
C7_Witness ==
    /\ Mounted /\ hasUnsavedChanges /\ ~saving /\ saves = EmptyBag
    /\ \E t \in timers : timers = {t} /\ t.quiet < t.interval /\ t.remaining = 0

\* C8: a timer that is pending when a save is started by hand starts no save:
\* no auto-save timer starts a save while saving is set.
C8_ManualSaveCancelsTimer ==
    [][\A t \in timers : autoSaveFires(t) /\ saving => ~SaveStarts]_vars

\* C9: when the activity insert of a create, a save or a rename fails, the
\* operation goes on as if it had succeeded and the stored row is not touched:
\* the created document is opened; the save clears hasUnsavedChanges and saving
\* and sets lastSaved; the rename sets the title and closes the title input.
C9_ActivityFailureIsSwallowed ==
    [][/\ createLogged(FALSE) =>
             /\ Mounted' /\ fetch' = "sent" /\ toast' = "Document created"
             /\ db' = db /\ db.exists
       /\ \A s \in BagToSet(saves) : saveLogged(s, FALSE) /\ s.live =>
             /\ ~hasUnsavedChanges' /\ ~saving' /\ lastSaved' = SaveDate
             /\ toast' = "Saved"
             /\ db' = db /\ editorContent' = editorContent
       /\ renameLogged(FALSE) /\ rename.live =>
             /\ title' = rename.newTitle /\ ~isEditingTitle'
             /\ toast' = "Title updated"
             /\ db' = db]_vars

\* C9 witness: the document was created, saved and renamed, no activity entry
\* was recorded, and the session shows the saved and renamed document.
C9_Witness ==
    /\ Mounted /\ activity = <<>>
    /\ lastSaved = SaveDate /\ ~hasUnsavedChanges /\ ~saving
    /\ db.content = editorContent /\ editorContent \in Typed
    /\ title = <<"R">> /\ db.title = title /\ ~isEditingTitle
    /\ saves = EmptyBag /\ rename = NoRename

StaleSaveReturns(s) ==
    /\ s.live /\ s.phase = "activity"
    /\ lastSaved = NoDate /\ BagCardinality(saves) = 1
    /\ s.content \in Typed /\ db.content = s.content
    /\ db.updated_at >= document.updated_at + 2

C11_StaleSaveEndsInConflict ==
    [][\A s \in BagToSet(saves) :
          StaleSaveReturns(s) /\ (\E ok \in BOOLEAN : saveLogged(s, ok))
             => hasUnsavedChanges' /\ toast' # "Saved"]_vars

\* C12: a change notification handled while the session is clean (no unsaved
\* change, no save in flight) puts the notified content (as setContent loads
\* it) and the notified title into the editor and leaves the session clean:
\* the dirty flag stays off, no save starts and no auto-save timer is set.
C12_CleanSessionTakesRemote ==
    [][(/\ handleDocumentChange
        /\ Head(feed).exists
        /\ ~hasUnsavedChanges /\ ~saving /\ saves = EmptyBag)
          => /\ editorContent' = SetContentArg(Head(feed).content)
             /\ title' = Head(feed).title
             /\ document' = Local(Head(feed))
             /\ ~hasUnsavedChanges' /\ ~saving' /\ saves' = saves
             /\ timers' \subseteq timers /\ autoSaveTimer' = autoSaveTimer]_vars

C12_Witness ==
    /\ Mounted /\ ~hasUnsavedChanges /\ ~saving /\ saves = EmptyBag
    /\ lastSaved = NoDate /\ editorContent \in PeerTyped /\ db.content \in PeerTyped
    /\ document.updated_at = db.updated_at /\ timers = {}

\* C13 (as stated): when a save of the open editor returns successfully the
\* session is clean (dirty flag off, saving off), lastSaved is the time of that
\* save, and exactly one 'edited' entry of the saving user has been appended to
\* the activity log.
C13_SuccessfulSaveLogsOneEntry ==
    [][\A s \in BagToSet(saves) : \A ok \in BOOLEAN :
          saveLogged(s, ok) /\ s.live
             => /\ ~hasUnsavedChanges' /\ ~saving' /\ lastSaved' = SaveDate
                /\ activity' = Append(activity, Entry("edited", "session", <<>>, <<>>))]_vars

\* C13 (amended): when a save of the open editor returns successfully the
\* session is clean, lastSaved is the time of that save, and the activity log
\* has grown by exactly one 'edited' entry of the saving user if the activity
\* insert succeeded and is unchanged if that insert failed.
C13_SuccessfulSaveLogsAtMostOneEntry ==
    [][\A s \in BagToSet(saves) : \A ok \in BOOLEAN :
          saveLogged(s, ok) /\ s.live
             => /\ ~hasUnsavedChanges' /\ ~saving' /\ lastSaved' = SaveDate
                /\ activity' = IF ok
                               THEN Append(activity, Entry("edited", "session", <<>>, <<>>))
                               ELSE activity]_vars

C13_Witness ==
    /\ Mounted /\ toast = "Saved" /\ lastSaved = SaveDate
    /\ ~hasUnsavedChanges /\ ~saving /\ saves = EmptyBag
    /\ activity # <<>>
    /\ activity[Len(activity)] = Entry("edited", "session", <<>>, <<>>)
    /\ db.content \in Typed

\* C14: when the store executes the update of an in-place rename, the old_title
\* the call records is the title the row held immediately before that update
\* and the new_title it records is the title the row holds after it.
C14_RenameRecordsPersistedTitles ==
    [][renameApplied
          => /\ rename.oldTitle = db.title
             /\ rename.newTitle = db'.title]_vars

\* C15: every rename from the settings dialog, every visibility change and
\* every delete that the store has executed appends one activity entry, made
\* by the acting user, to the log of the document (as every save and every
\* rename from the header does).
C15_EveryOperationIsLogged ==
    [][(settingsApplied \/ publicApplied \/ deleteReturned) /\ db' # db
          => /\ Len(activity') = Len(activity) + 1
             /\ activity'[Len(activity')].by = "session"
             /\ activity'[Len(activity')].action \in {"renamed", "shared", "deleted"}]_vars

\* C16: the title of the stored document is never empty and never consists of
\* blanks only.
C16_PersistedTitleNonEmpty == db.exists => Trim(db.title) # <<>>

\* C17: when the delete of a user who does not own the document comes back,
\* the row is still there, the editor is not told that the document was
\* deleted, and the editor does not leave the document.
C17_GuestDeleteIsReported ==
    [][(\/ deleteReturned
        \/ deleteFailed) /\ call.live /\ db.exists /\ db.owner_id # User
          => /\ db' = db
             /\ toast' = "Error: delete"
             /\ view' = view]_vars

\* C18: while auto-save is switched off no timer is pending whose callback
\* starts a save when it runs (also not a timer that was set before auto-save
\* was switched off), and no timer's callback starts a save; and switching
\* auto-save off leaves the dirty flag as it is.
C18_DisabledAutoSaveStartsNoSave ==
    /\ [](Mounted /\ ~autoSaveEnabled
             => \A t \in timers : ~(t.ed = "live" /\ t.cl.document /\ ~t.cl.saving))
    /\ [][/\ \A t \in timers : autoSaveFires(t) /\ ~autoSaveEnabled => ~SaveStarts
          /\ \A i \in {autoSaveInterval} \cup {ParsedInterval(raw) : raw \in IntervalInputs} :
                handleSettingsChange(FALSE, i) => hasUnsavedChanges' = hasUnsavedChanges]_vars

\* C19: the auto-save interval of the session, and the delay of every timer
\* set from it, is at least five seconds, whatever was typed into the
\* interval field (nothing or a non-number, 0, a negative number, a number).
C19_IntervalAtLeastFive ==
    /\ autoSaveInterval >= 5
    /\ \A t \in timers : t.interval >= 5 /\ t.remaining <= t.interval
    /\ \A raw \in IntervalInputs : ParsedInterval(raw) >= 5

\* C19 witness: a value typed into the interval field that is below five was
\* saved, and a timer was set with the interval that resulted.
C19_Witness ==
    /\ Mounted /\ toast = "Settings saved" /\ autoSaveInterval = MinInterval
    /\ \E t \in timers : t.interval = MinInterval /\ t.ed = "live"

\* C20: a session whose load failed (it shows that the document cannot be
\* opened) stays that way until it is left: no later step gives it a
\* document to edit, and none starts a save.
C20_FailedLoadIsTerminal ==
    [][Mounted /\ ~loading /\ ~document.exists /\ Mounted'
          => ~document'.exists /\ ~SaveStarts]_vars

C22_CancelDiscardsScratchTitle ==
    [][/\ (handleTitleEdit \/ handleTitleCancel \/ \E v \in TitleInputs : setTempTitle(v))
             => /\ title' = title /\ db' = db /\ activity' = activity
                /\ rename' = rename /\ saves' = saves
       /\ handleTitleCancel => ~isEditingTitle' /\ tempTitle' = title]_vars

\* C22 witness: the title input is closed again, nothing was renamed, and the
\* scratch title is the title shown and stored.
C22_Witness ==
    /\ Mounted /\ ~loading /\ ~isEditingTitle /\ rename = NoRename
    /\ tempTitle = title /\ title = Untitled /\ db.title = Untitled
    /\ \A n \in 1..Len(activity) : activity[n].action # "renamed"

C24_EditDuringSaveStaysDirty ==
    [][\A s \in BagToSet(saves) : \A ok \in BOOLEAN :
          (/\ saveLogged(s, ok) /\ s.live
           /\ document.updated_at = 1 /\ db.updated_at = 2 /\ db.content = s.content
           /\ editorContent \in Typed /\ editorContent # s.content)
             => hasUnsavedChanges']_vars

\* C25: a notification of a row that a save of this session wrote (its content
\* is a document typed in this session; other clients write other documents)
\* leaves the editor's document as it is.
C25_OwnSaveNotificationKeepsContent ==
    [][handleDocumentChange /\ Head(feed).exists /\ Head(feed).content \in Typed
          => editorContent' = editorContent]_vars

\* The open editor holds a typed document that is neither stored nor sent by
\* a save in flight, with auto-save switched on.
Unsaved ==
    /\ Mounted /\ ~loading /\ autoSaveEnabled
    /\ editorContent \in Typed /\ editorContent # db.content
    /\ \A s \in BagToSet(saves) : s.content # editorContent

\* A bound of the model stops further saves.
BoundReached ==
    \/ db.updated_at = MaxVersion
    \/ BagCardinality(saves) = MaxSaves

\* C26: with timers that fire and saves that resolve, an edit of the open
\* editor with auto-save on does not stay unsaved for ever: a save that sends
\* it starts (or the model's bound on saves is reached first).
C26_EditIsEventuallySaved == Unsaved ~> (~Unsaved \/ BoundReached)

\* The second half of C26, which holds: a loaded session that is marked
\* unsaved with auto-save on has a pending timer or a save in flight.
C26_DirtyHasTimerOrSave ==
    Mounted /\ ~loading /\ hasUnsavedChanges /\ autoSaveEnabled
        => (\E t \in timers : t.ed = "live") \/ saves # EmptyBag

\* C27: while the open session is marked unsaved, neither the store accepting
\* its rename or visibility change nor the delivery of the resulting change
\* event alters the editor's content or clears the unsaved flag.
C27_RenameAndToggleKeepUnsavedContent ==
    [][/\ Mounted /\ ~loading /\ hasUnsavedChanges
       /\ (db' # db \/ (feed # <<>> /\ feed' = Tail(feed)))
       => editorContent' = editorContent /\ hasUnsavedChanges']_vars

\* The store executes the update of a save of the session.
SaveUpdateReturns ==
    \E s \in BagToSet(saves) : s.phase = "update" /\ saves' = Advance(s, "activity")

\* C28: the update of a content save leaves the persisted title as it is:
\* a save started after a rename was persisted does not write the title
\* from before the rename.
C28_SaveKeepsPersistedTitle ==
    [][SaveUpdateReturns => db'.title = db.title]_vars

\* C29: the session never has two auto-save timers pending, and a timer that
\* the auto-save effect has just set is the only timer pending and the one
\* autoSaveTimer refers to.
C29_AtMostOneTimerPending ==
    /\ [](Cardinality(timers) <= 1)
    /\ [][\A t \in timers' \ timers :
             t.remaining = t.interval => timers' = {t} /\ autoSaveTimer' = t.id]_vars

\* C29 witness: after a save has resolved and the interval was changed, the
\* session is unsaved again and the timer set last is the one pending.
C29_Witness ==
    /\ Mounted /\ hasUnsavedChanges /\ ~saving /\ lastSaved # NoDate
    /\ \E t \in timers : /\ timers = {t} /\ t.id = autoSaveTimer
                         /\ t.interval # DefaultInterval /\ t.ed = "live"

\* C30: while the dashboard is closed the client holds no subscription of the
\* dashboard to document changes, and no fetchDocuments call is started.
C30_ClosedDashboardHoldsNoSubscription ==
    /\ [](view # "dashboard" => dashboard.channels = 0)
    /\ [][view # "dashboard" /\ view' # "dashboard"
          => dashboard'.fetching <= dashboard.fetching]_vars

====
